---- MODULE Spec2Model ----
(***************************************************************************)
(* Model of the FAISS-backed vector store of the RAG chatbot backend:      *)
(*   services/faiss_store.py  FAISSCollection (load, persist, add, get,    *)
(*                            count)                                       *)
(*   services/embeddings.py   chunk_and_store                              *)
(* One collection, one persist directory holding the index file and the    *)
(* metadata file.  I/O and collaborator failures are inputs of the         *)
(* operations ("fault").                                                    *)
(***************************************************************************)
EXTENDS Integers, Sequences, FiniteSets, TLC

\* ------------------------------------------------------------------ bounds
\* Longest text handed to chunk_and_store (characters).
MaxTextLen == 3
\* Cap on the entries the in-memory lists may hold.
MaxEntries == 2
\* Cap on the rows of the in-memory index.
MaxRows == 3
\* chunk_size and chunk_overlap of chunk_and_store, in the unit of the texts
\* below (the callers pass 1000 and 200, or leave these defaults): an overlap
\* smaller than the size, and a size that the longer texts exceed.
ChunkSize == 2
ChunkOverlap == 1

\* ------------------------------------------------------------- value sets
\* The texts: one of every length up to MaxTextLen, alternating the symbols
\* (so that neighbouring chunks of one text differ).
Alternating(n) == [i \in 1..n |-> IF i % 2 = 1 THEN 1 ELSE 2]
Texts == {Alternating(n) : n \in 0..MaxTextLen}
\* A falsy source argument (None, the default, or the empty string).
NoSource == ""
Sources == {NoSource, "a.pdf", "b.pdf"}
\* Direct callers of add hand over one document, or none.
DirectDocs == {<<>>, <<(<<1>>)>>}

\* Where an operation's collaborator or file write fails.
\*   encode       embedding_model.encode raises
\*   index_add    index.add raises
\*   index_write  faiss.write_index raises (the index file left as it was)
\*   meta_open    the metadata file cannot be opened for writing (left as is)
\* (A write that breaks off midway leaves a file that does not load; Tamper
\* below produces such files.)
Faults == {"none", "encode", "index_add", "index_write", "meta_open"}
PersistFaults == {"index_write", "meta_open"}

MetaKeys == {"documents", "metadatas", "ids"}

Min(a, b) == IF a < b THEN a ELSE b

VARIABLES
    index,        \* rows of the in-memory FAISS index, in insertion order
    ids,          \* self.ids
    documents,    \* self.documents
    metadatas,    \* self.metadatas (a dict is the set of its key/value pairs)
    disk_index,   \* the file <name>_index.faiss
    disk_meta,    \* the file <name>_metadata.pkl
    last          \* the operation that ran last and its outcome

vars == <<index, ids, documents, metadatas, disk_index, disk_meta, last>>
store == <<index, ids, documents, metadatas, disk_index, disk_meta>>

\* --------------------------------------------------------- collaborators
\* SentenceTransformer.encode of one text: a deterministic fixed-dimension
\* vector (here the count of each symbol).
CountOf(doc, a) == Cardinality({i \in 1..Len(doc) : doc[i] = a})
EncodeOne(doc) == <<CountOf(doc, 1), CountOf(doc, 2)>>
Encode(docs) == [i \in 1..Len(docs) |-> EncodeOne(docs[i])]

\* text_splitter.split_text: windows of ChunkSize units, each starting
\* ChunkSize - ChunkOverlap after the one before; no window for an empty text.
RECURSIVE SplitFrom(_, _)
SplitFrom(text, start) ==
    IF start > Len(text) THEN <<>>
    ELSE LET cur == Min(start + ChunkSize - 1, Len(text))
             chunk == SubSeq(text, start, cur)
         IN  IF cur = Len(text) THEN <<chunk>>
             ELSE <<chunk>> \o SplitFrom(text, start + ChunkSize - ChunkOverlap)
SplitText(text) == SplitFrom(text, 1)

\* uuid.uuid4() for each chunk of one call: <<batch, j>>, where the batch
\* number is the least one that no id held in memory or in the metadata file
\* carries (an id that is stored nowhere can no longer meet a new one).
NewIds(call, n) == [j \in 1..n |-> <<call, j>>]

\* ------------------------------------------------------------------ files
AbsentIndex == [state |-> "absent", rows |-> <<>>]
CorruptIndex == [state |-> "corrupt", rows |-> <<>>]
IndexFile(rows) == [state |-> "ok", rows |-> rows]
AbsentMeta == [state |-> "absent", keys |-> {}, documents |-> <<>>,
               metadatas |-> <<>>, ids |-> <<>>]
CorruptMeta == [state |-> "corrupt", keys |-> {}, documents |-> <<>>,
                metadatas |-> <<>>, ids |-> <<>>]
MetaFile(docs, metas, is) == [state |-> "ok", keys |-> MetaKeys,
                              documents |-> docs, metadatas |-> metas,
                              ids |-> is]

\* ------------------------------------------------------- FAISSCollection
Range(f) == {f[i] : i \in DOMAIN f}
NextCall(mem, disk) ==
    LET used == {id[1] : id \in Range(mem.ids) \cup Range(disk.meta.ids)}
    IN  CHOOSE n \in 1..(Cardinality(used) + 1) :
            n \notin used /\ \A m \in 1..(n - 1) : m \in used

Mem == [index |-> index, ids |-> ids, documents |-> documents,
        metadatas |-> metadatas]
Disk == [index |-> disk_index, meta |-> disk_meta]

\* _create_new_index
CreateNewIndex == [index |-> <<>>, ids |-> <<>>, documents |-> <<>>,
                   metadatas |-> <<>>]

\* The attributes at the moment the try block of _load_or_create raises: the
\* assignments made before the failing statement have happened.
PartialLoad(disk) ==
    LET dm == disk.meta
        base == CreateNewIndex
    IN  IF disk.index.state # "ok" THEN base
        ELSE IF dm.state # "ok" \/ "documents" \notin dm.keys
             THEN [base EXCEPT !.index = disk.index.rows]
        ELSE IF "metadatas" \notin dm.keys
             THEN [base EXCEPT !.index = disk.index.rows,
                               !.documents = dm.documents]
        ELSE [base EXCEPT !.index = disk.index.rows,
                          !.documents = dm.documents,
                          !.metadatas = dm.metadatas]

\* (variant: an except branch that keeps what the try block had assigned)
LoadFailedKeepPartial(partial) == partial
\* The except branch of _load_or_create.
LoadFailed(partial) == CreateNewIndex

\* (variant: a load that also rejects files of different sizes)
LoadRaisesOnMismatch(disk) ==
    \/ disk.index.state # "ok"
    \/ disk.meta.state # "ok"
    \/ disk.meta.keys # MetaKeys
    \/ Len(disk.index.rows) # Len(disk.meta.documents)
\* Whether the try block of _load_or_create raises.
LoadRaises(disk) ==
    \/ disk.index.state # "ok"
    \/ disk.meta.state # "ok"
    \/ disk.meta.keys # MetaKeys

\* _load_or_create
LoadOrCreate(disk) ==
    IF disk.index.state # "absent" /\ disk.meta.state # "absent"
    THEN IF LoadRaises(disk)
         THEN LoadFailed(PartialLoad(disk))
         ELSE [index |-> disk.index.rows, ids |-> disk.meta.ids,
               documents |-> disk.meta.documents,
               metadatas |-> disk.meta.metadatas]
    ELSE CreateNewIndex

\* _persist: the index file, then the metadata file; an exception ends it and
\* is swallowed.
Persist(mem, disk, fault) ==
    CASE fault = "index_write" -> disk
      [] fault = "meta_open"   -> [disk EXCEPT !.index = IndexFile(mem.index)]
      [] OTHER -> [index |-> IndexFile(mem.index),
                   meta |-> MetaFile(mem.documents, mem.metadatas, mem.ids)]

\* Whether _persist lets the exception of a failed write out.
PersistRaises(fault) == FALSE

\* (variant: the new entries put in front of the lists)
StoreMetadataInFront(mem, newIds, docs, metas) ==
    [mem EXCEPT !.ids = newIds \o @,
                !.documents = docs \o @,
                !.metadatas = (IF metas # <<>> THEN metas
                               ELSE [i \in 1..Len(docs) |-> {}]) \o @]
\* add, lines 120-123: the lists are extended.
StoreMetadata(mem, newIds, docs, metas) ==
    [mem EXCEPT !.ids = @ \o newIds,
                !.documents = @ \o docs,
                !.metadatas = @ \o (IF metas # <<>> THEN metas
                                    ELSE [i \in 1..Len(docs) |-> {}])]

\* (variant: the lists extended before encode and index.add are tried)
FailedAddKeepsLists(mem, newIds, docs, metas) ==
    StoreMetadata(mem, newIds, docs, metas)
\* add, lines 102-118: the attributes when encode or index.add raises.
FailedAdd(mem, newIds, docs, metas) == mem

\* add: the attributes, the files, whether it raised, and the failure that
\* happened (a fault of a statement the call never reached did not happen);
\* ret stands for the None add returns.
Add(mem, disk, newIds, docs, metas, fault) ==
    IF docs = <<>>
    THEN [mem |-> mem, disk |-> disk, raised |-> FALSE, fault |-> "none",
          ret |-> <<0, FALSE>>]
    ELSE IF fault \in {"encode", "index_add"}
    THEN [mem |-> FailedAdd(mem, newIds, docs, metas), disk |-> disk,
          raised |-> TRUE, fault |-> fault, ret |-> <<0, FALSE>>]
    ELSE LET indexed == [mem EXCEPT !.index = @ \o Encode(docs)]
             stored == StoreMetadata(indexed, newIds, docs, metas)
         IN  [mem |-> stored, disk |-> Persist(stored, disk, fault),
              raised |-> fault \in PersistFaults /\ PersistRaises(fault),
              fault |-> fault, ret |-> <<0, FALSE>>]

\* None of Python, as a metadata or filter value.
PyNone == "None"
\* The filters handed to get: none, one source, a source of None, two keys.
Wheres == {{}, {<<"source", "a.pdf">>}, {<<"source", "b.pdf">>},
           {<<"source", PyNone>>},
           {<<"source", "a.pdf">>, <<"kind", "pdf">>}}
\* meta.get(k): the value under k, None where the dict has no such key
MetaGet(meta, k) ==
    IF \E kv \in meta : kv[1] = k
    THEN (CHOOSE kv \in meta : kv[1] = k)[2]
    ELSE PyNone
\* meta.get(k) == v for every item of where
Matches(meta, where) == \A kv \in where : MetaGet(meta, kv[1]) = kv[2]
\* get: the positions of the matching entries, in list order.
RECURSIVE MatchingFrom(_, _, _)
MatchingFrom(metas, where, i) ==
    IF i > Len(metas) THEN <<>>
    ELSE (IF Matches(metas[i], where) THEN <<i>> ELSE <<>>)
         \o MatchingFrom(metas, where, i + 1)
Get(mem, where) ==
    IF where = {}
    THEN [ids |-> mem.ids, documents |-> mem.documents,
          metadatas |-> mem.metadatas]
    ELSE LET pos == MatchingFrom(mem.metadatas, where, 1)
         IN  [ids |-> [k \in 1..Len(pos) |-> mem.ids[pos[k]]],
              documents |-> [k \in 1..Len(pos) |-> mem.documents[pos[k]]],
              metadatas |-> [k \in 1..Len(pos) |-> mem.metadatas[pos[k]]]]

\* count
Count(mem) == Len(mem.documents)

\* -------------------------------------------------------- chunk_and_store
\* (variant: no existence check)
SourceNeverExists(mem, source) == FALSE
\* lines 48-52: the existence check.
SourceExists(mem, source) ==
    /\ source # NoSource
    /\ Len(Get(mem, {<<"source", source>>}).ids) > 0

\* (variant: the source left out of the metadata)
ChunkMetadatasNoSource(chunks, source) == [i \in 1..Len(chunks) |-> {}]
\* line 64
ChunkMetadatas(chunks, source) ==
    [i \in 1..Len(chunks) |->
        IF source # NoSource THEN {<<"source", source>>} ELSE {}]

\* (variant: the number of entries found returned as chunks_created)
AlreadyExistsReturnsCount(mem, source) ==
    <<Len(Get(mem, {<<"source", source>>}).ids), TRUE>>
\* line 52
AlreadyExistsReturn(mem, source) == <<0, TRUE>>

\* chunk_and_store: the attributes, the files, the return value and whether
\* it raised.
ChunkAndStore(mem, disk, call, text, source, fault) ==
    IF SourceExists(mem, source)
    THEN [mem |-> mem, disk |-> disk, raised |-> FALSE, fault |-> "none",
          ret |-> AlreadyExistsReturn(mem, source)]
    ELSE LET chunks == SplitText(text)
             r == Add(mem, disk, NewIds(call, Len(chunks)), chunks,
                      ChunkMetadatas(chunks, source), fault)
         IN  [r EXCEPT !.ret = IF r.raised THEN <<0, FALSE>>
                               ELSE <<Len(chunks), FALSE>>]

\* ---------------------------------------------------------------- actions
NoCall == [op |-> "init", fault |-> "none", raised |-> FALSE,
           ret |-> <<0, FALSE>>]

Init ==
    /\ index = <<>>
    /\ ids = <<>>
    /\ documents = <<>>
    /\ metadatas = <<>>
    /\ disk_index = AbsentIndex
    /\ disk_meta = AbsentMeta
    /\ last = NoCall

SetMem(m) ==
    /\ index' = m.index
    /\ ids' = m.ids
    /\ documents' = m.documents
    /\ metadatas' = m.metadatas

SetDisk(d) ==
    /\ disk_index' = d.index
    /\ disk_meta' = d.meta

\* A new FAISSCollection on the same name and persist directory (a restart).
Construct ==
    /\ SetMem(LoadOrCreate(Disk))
    /\ UNCHANGED <<disk_index, disk_meta>>
    /\ last' = [NoCall EXCEPT !.op = "construct"]

\* collection.add(ids, documents) called with the default metadatas.
AddDirect ==
    \E docs \in DirectDocs, fault \in Faults :
        /\ Len(documents) + Len(docs) <= MaxEntries
        /\ Len(index) + Len(docs) <= MaxRows
        /\ \E r \in {Add(Mem, Disk, NewIds(NextCall(Mem, Disk), Len(docs)),
                        docs, <<>>, fault)} :
               /\ SetMem(r.mem)
               /\ SetDisk(r.disk)
               /\ last' = [op |-> "add", fault |-> r.fault,
                           raised |-> r.raised, ret |-> <<0, FALSE>>]

\* chunk_and_store(text, collection, source), with one of the given sources
\* and one of the given faults
ChunkAndStoreFrom(sources, faults) ==
    \E text \in Texts, source \in sources, fault \in faults :
        /\ Len(documents) + Len(SplitText(text)) <= MaxEntries
        /\ Len(index) + Len(SplitText(text)) <= MaxRows
        /\ \E r \in {ChunkAndStore(Mem, Disk, NextCall(Mem, Disk), text,
                                  source, fault)} :
               /\ SetMem(r.mem)
               /\ SetDisk(r.disk)
               /\ last' = [op |-> "chunk_and_store", fault |-> r.fault,
                           raised |-> r.raised, ret |-> r.ret]

ChunkAndStoreWith(faults) == ChunkAndStoreFrom(Sources, faults)

ChunkAndStoreCall == ChunkAndStoreWith(Faults)

\* collection.get(where)
GetCall ==
    /\ UNCHANGED store
    /\ last' = [NoCall EXCEPT !.op = "get"]

\* collection.count()
CountCall ==
    /\ UNCHANGED store
    /\ last' = [NoCall EXCEPT !.op = "count"]

Next ==
    \/ Construct
    \/ AddDirect
    \/ ChunkAndStoreCall
    \/ GetCall
    \/ CountCall

Spec == Init /\ [][Next]_vars

\* The persisted files changed from outside the program, after an add has
\* written both: a file deleted, a file overwritten with bytes that do not
\* deserialize, or a metadata file that lacks one of its keys.
Tamper ==
    \E kind \in {"rm_index", "rm_meta", "bad_index", "bad_meta", "drop_key"} :
        /\ disk_index = IndexFile(index)
        /\ disk_meta = MetaFile(documents, metadatas, ids)
        /\ CASE kind = "rm_index" ->
                    disk_index' = AbsentIndex /\ UNCHANGED disk_meta
             [] kind = "rm_meta" ->
                    disk_meta' = AbsentMeta /\ UNCHANGED disk_index
             [] kind = "bad_index" ->
                    disk_index' = CorruptIndex /\ UNCHANGED disk_meta
             [] kind = "bad_meta" ->
                    disk_meta' = CorruptMeta /\ UNCHANGED disk_index
             [] OTHER ->
                    /\ \E k \in MetaKeys :
                           disk_meta' = [disk_meta EXCEPT !.keys = @ \ {k}]
                    /\ UNCHANGED disk_index
        /\ UNCHANGED <<index, ids, documents, metadatas>>
        /\ last' = [NoCall EXCEPT !.op = "tamper"]

\* Uploads that meet no failure, restarts, and changes of the files from
\* outside.
ChunkAndStoreNoFault == ChunkAndStoreWith({"none"})

NextEnv ==
    \/ Construct
    \/ ChunkAndStoreNoFault
    \/ Tamper

SpecEnv == Init /\ [][NextEnv]_vars

\* ------------------------------------------------- add, statement by statement
\* One add seen at its three effects: the attributes updated (lines 111-123),
\* the index file written (line 72), the metadata file written (lines 75-80).
\* last.op tells how far the running add has come; the process can be killed
\* and restarted (Construct) at any of these points.  A file write happens
\* whole or not at all.
AddSteps == {"add:memory", "add:index_file"}
Idle == last.op \notin AddSteps

\* (variant: _persist leaves the index file as it is)
KeepIndexFile(mem, disk) == disk
\* _persist, line 72
WriteIndexFile(mem, disk) == [disk EXCEPT !.index = IndexFile(mem.index)]
\* _persist, lines 75-80
WriteMetaFile(mem, disk) ==
    [disk EXCEPT !.meta = MetaFile(mem.documents, mem.metadatas, mem.ids)]

\* chunk_and_store up to the end of line 123 of add: encode and index.add
\* succeeded and the lists are extended; nothing is written yet.
AddMemory ==
    \E text \in Texts, source \in Sources :
        /\ Idle
        /\ ~SourceExists(Mem, source)
        /\ SplitText(text) # <<>>
        /\ Len(documents) + Len(SplitText(text)) <= MaxEntries
        /\ Len(index) + Len(SplitText(text)) <= MaxRows
        /\ \E chunks \in {SplitText(text)} :
               SetMem(StoreMetadata(
                   [Mem EXCEPT !.index = @ \o Encode(chunks)],
                   NewIds(NextCall(Mem, Disk), Len(chunks)), chunks,
                   ChunkMetadatas(chunks, source)))
        /\ UNCHANGED <<disk_index, disk_meta>>
        /\ last' = [NoCall EXCEPT !.op = "add:memory"]

\* faiss.write_index: it writes the file, or raises and _persist ends the add.
AddIndexFile ==
    /\ last.op = "add:memory"
    /\ UNCHANGED <<index, ids, documents, metadatas>>
    /\ \/ /\ SetDisk(WriteIndexFile(Mem, Disk))
          /\ last' = [NoCall EXCEPT !.op = "add:index_file"]
       \/ /\ UNCHANGED <<disk_index, disk_meta>>
          /\ last' = [NoCall EXCEPT !.op = "add", !.fault = "index_write",
                                    !.raised = PersistRaises("index_write")]

\* open + pickle.dump: the file is written, or open raises; the add returns.
AddMetaFile ==
    /\ last.op = "add:index_file"
    /\ UNCHANGED <<index, ids, documents, metadatas>>
    /\ \/ /\ SetDisk(WriteMetaFile(Mem, Disk))
          /\ last' = [NoCall EXCEPT !.op = "add"]
       \/ /\ UNCHANGED <<disk_index, disk_meta>>
          /\ last' = [NoCall EXCEPT !.op = "add", !.fault = "meta_open",
                                    !.raised = PersistRaises("meta_open")]

NextSteps ==
    \/ AddMemory
    \/ AddIndexFile
    \/ AddMetaFile
    \/ Construct

SpecSteps == Init /\ [][NextSteps]_vars

\* ------------------------------------------------------------ characters
\* A text is a sequence of characters.  1 and 2 are two lower-case letters,
\* UpperA is the upper-case form of 1; NL and SP are the line feed and the
\* space.
UpperA == 3
NL == 10
SP == 32
Whitespace == {NL, SP}
\* str.lower, character by character
LowerChar(c) == IF c = UpperA THEN 1 ELSE c
Lower(text) == [i \in 1..Len(text) |-> LowerChar(text[i])]

\* sep.join(parts)
RECURSIVE Join(_, _)
Join(parts, sep) ==
    IF parts = <<>> THEN <<>>
    ELSE IF Len(parts) = 1 THEN parts[1]
    ELSE parts[1] \o sep \o Join(Tail(parts), sep)

\* (variant: nothing cut off)
PySliceAll(seq, n) == seq
\* seq[:n] of Python: the first n elements, or all but the last -n.
PySlice(seq, n) ==
    IF n >= 0 THEN SubSeq(seq, 1, Min(n, Len(seq)))
    ELSE SubSeq(seq, 1, Len(seq) + n)

\* seq[i] of Python for a 0-based index, a negative one counting from the end.
PyIndex(seq, i) == IF i >= 0 THEN seq[i + 1] ELSE seq[Len(seq) + i + 1]

\* ------------------------------------------------------------------ query
\* n_results handed to query and retrieve_context.
MaxResults == 2
NResults == (0 - 1)..MaxResults
\* The questions asked.
Queries == {<<>>, <<1>>, <<1, 2>>, <<2>>}
QueryFaults == {"none", "encode", "search"}

\* IndexFlatL2: the squared Euclidean distance.
Dist(u, v) ==
    (u[1] - v[1]) * (u[1] - v[1]) + (u[2] - v[2]) * (u[2] - v[2])

\* index.search(q, k): the 0-based labels of the k rows closest to q, closest
\* first, rows of equal distance by row number; -1 where the index has fewer
\* than k rows.
RECURSIVE NearestFrom(_, _, _, _)
NearestFrom(rows, q, k, taken) ==
    IF k <= 0 THEN <<>>
    ELSE IF taken = DOMAIN rows
         THEN <<0 - 1>> \o NearestFrom(rows, q, k - 1, taken)
    ELSE LET rest == DOMAIN rows \ taken
             best == CHOOSE i \in rest : \A j \in rest :
                        \/ Dist(rows[i], q) < Dist(rows[j], q)
                        \/ Dist(rows[i], q) = Dist(rows[j], q) /\ i <= j
         IN  <<best - 1>> \o NearestFrom(rows, q, k - 1, taken \cup {best})
IndexSearch(rows, q, k) == NearestFrom(rows, q, k, {})

\* The distances index.search returns with the labels.
SearchDistances(rows, q, labels) ==
    [p \in 1..Len(labels) |->
        IF labels[p] < 0 THEN "inf" ELSE Dist(rows[labels[p] + 1], q)]

EmptyResult == [documents |-> <<(<<>>)>>, distances |-> <<(<<>>)>>,
                metadatas |-> <<(<<>>)>>, raised |-> FALSE,
                fault |-> "none", calls |-> {}]
RaisedResult(fault, calls) ==
    [documents |-> <<>>, distances |-> <<>>, metadatas |-> <<>>,
     raised |-> TRUE, fault |-> fault, calls |-> calls]

\* query, lines 212-213: the condition of the list comprehensions
InList(label, len) == label < len

\* query: the result dict, whether it raised, and the collaborators it called.
\* index.search rejects k <= 0.
Query(mem, query_texts, n_results, fault) ==
    IF query_texts = <<>> \/ Len(mem.documents) = 0 THEN EmptyResult
    ELSE IF fault = "encode" THEN RaisedResult("encode", {"encode"})
    ELSE LET q == EncodeOne(query_texts[1])
             k == Min(n_results, Len(mem.documents))
         IN  IF fault = "search" \/ k <= 0
             THEN RaisedResult("search", {"encode", "search"})
             ELSE LET labels == IndexSearch(mem.index, q, k)
                      docs == SelectSeq(labels,
                                  LAMBDA i : InList(i, Len(mem.documents)))
                      metas == SelectSeq(labels,
                                  LAMBDA i : InList(i, Len(mem.metadatas)))
                  IN  [documents |-> <<[p \in 1..Len(docs) |->
                                          PyIndex(mem.documents, docs[p])]>>,
                       distances |-> <<SearchDistances(mem.index, q, labels)>>,
                       metadatas |-> <<[p \in 1..Len(metas) |->
                                          PyIndex(mem.metadatas, metas[p])]>>,
                       raised |-> FALSE, fault |-> "none",
                       calls |-> {"encode", "search"}]

\* --------------------------------------------------------- keyword_search
\* full_text.split('\n'): the pieces between the line feeds.
RECURSIVE SplitLines(_)
SplitLines(text) ==
    IF \A i \in 1..Len(text) : text[i] # NL THEN <<text>>
    ELSE LET i == CHOOSE i \in 1..Len(text) :
                     text[i] = NL /\ \A j \in 1..(i - 1) : text[j] # NL
         IN  <<SubSeq(text, 1, i - 1)>>
             \o SplitLines(SubSeq(text, i + 1, Len(text)))

\* str.split(): the maximal runs of characters that are not whitespace.
RECURSIVE Words(_)
Words(text) ==
    IF text = <<>> THEN <<>>
    ELSE IF text[1] \in Whitespace THEN Words(Tail(text))
    ELSE LET ends == {i \in 1..Len(text) :
                         /\ \A j \in 1..i : text[j] \notin Whitespace
                         /\ i = Len(text) \/ text[i + 1] \in Whitespace}
             i == CHOOSE i \in ends : TRUE
         IN  <<SubSeq(text, 1, i)>> \o Words(SubSeq(text, i + 1, Len(text)))

\* word in line
Contains(line, word) ==
    \E i \in 0..(Len(line) - Len(word)) :
        SubSeq(line, i + 1, i + Len(word)) = word

\* len(line.strip()) > 0
NonBlank(line) == \E i \in 1..Len(line) : line[i] \notin Whitespace

\* (variant: the line compared as it is, not lower-cased)
ScoreCaseSensitive(line, words) ==
    Cardinality({p \in 1..Len(words) : Contains(line, words[p])})
\* line 146: the words of the lower-cased query found in the lower-cased line
Score(line, words) ==
    Cardinality({p \in 1..Len(words) : Contains(Lower(line), words[p])})

\* (variant: the lines left in the order of the text)
Unsorted(lines, words, top) == lines
\* scored_lines.sort(key=score, reverse=True): a stable sort, so the lines of
\* one score keep their order; the scores run from top down to 1.
RECURSIVE ByScore(_, _, _)
ByScore(lines, words, top) ==
    IF top <= 0 THEN <<>>
    ELSE SelectSeq(lines, LAMBDA l : Score(l, words) = top)
         \o ByScore(lines, words, top - 1)

\* keyword_search
KeywordSearch(full_text, query, top_k) ==
    LET words == Words(Lower(query))
        scored_lines == SelectSeq(SplitLines(full_text),
                            LAMBDA l : NonBlank(l) /\ Score(l, words) > 0)
    IN  IF scored_lines # <<>>
        THEN Join(PySlice(ByScore(scored_lines, words, Len(words)), top_k),
                  <<NL>>)
        ELSE <<>>

\* ------------------------------------------------------- retrieve_context
\* The collection argument: the collection, or None where the backend holds
\* none.
NoCollection == "None"
Collections == {"collection", NoCollection}
\* A falsy fallback_text (None, the default, or the empty string).
NoFallback == <<>>
Fallbacks == {NoFallback, <<UpperA, 2>>,
              <<1, 2, NL, 2, SP, 1, NL, SP, NL, UpperA>>}
\* What fails in the body: encode or index.search inside query (count fails on
\* a collection that is None).
RetrieveFaults == QueryFaults

\* (variant: no except clause around the body)
RetrieveRaisesAll(fault) == TRUE
\* lines 120-121: whether an exception of the body leaves retrieve_context
RetrieveRaises(fault) == FALSE

\* (variant: the count is never taken for zero)
NeverEmpty(count) == FALSE
\* line 98
IsEmpty(count) == count = 0

\* line 109
JoinContext(docs) == Join(docs, <<NL, NL>>)

RetrieveFailed(fault, calls) ==
    [ret |-> <<(<<>>), "error">>, raised |-> RetrieveRaises(fault),
     fault |-> fault, calls |-> calls]
RetrieveReturns(context, method, calls) ==
    [ret |-> <<context, method>>, raised |-> FALSE, fault |-> "none",
     calls |-> calls]

\* retrieve_context: the return value, whether it raised, the exception that
\* happened in its body, and the collaborators called.
RetrieveContext(coll, mem, query, n_results, fallback_text, fault) ==
    IF coll = NoCollection THEN RetrieveFailed("count", {})
    ELSE IF IsEmpty(Count(mem)) THEN RetrieveReturns(<<>>, "none", {})
    ELSE LET results == Query(mem, <<query>>,
                              Min(n_results * 2, Count(mem)), fault)
         IN  IF results.raised
             THEN RetrieveFailed(results.fault, results.calls)
             ELSE IF Len(results.documents[1]) > 0
             THEN RetrieveReturns(
                      JoinContext(PySlice(results.documents[1], n_results)),
                      "semantic", results.calls)
             ELSE IF fallback_text # NoFallback
                     /\ KeywordSearch(fallback_text, query, n_results) # <<>>
             THEN RetrieveReturns(
                      KeywordSearch(fallback_text, query, n_results),
                      "keyword", results.calls \cup {"keyword_search"})
             ELSE RetrieveReturns(<<>>, "none",
                      results.calls \cup (IF fallback_text # NoFallback
                                          THEN {"keyword_search"} ELSE {}))

\* --------------------------------------------------- retrieval, the actions
\* collection.query([query], n_results), or with no query text
QueryCall ==
    \E query_texts \in {<<>>} \cup {<<q>> : q \in Queries},
       n_results \in NResults, fault \in QueryFaults :
        /\ UNCHANGED store
        /\ \E r \in {Query(Mem, query_texts, n_results, fault)} :
               last' = [op |-> "query", fault |-> r.fault,
                        raised |-> r.raised,
                        ret |-> <<r.documents, r.distances, r.metadatas>>]

\* retrieve_context(query, collection, n_results, fallback_text)
RetrieveContextCall ==
    \E coll \in Collections, query \in Queries, n_results \in NResults,
       fallback_text \in Fallbacks, fault \in RetrieveFaults :
        /\ UNCHANGED store
        /\ \E r \in {RetrieveContext(coll, Mem, query, n_results,
                                    fallback_text, fault)} :
               last' = [op |-> "retrieve_context", fault |-> r.fault,
                        raised |-> r.raised, ret |-> r.ret,
                        calls |-> r.calls]

\* Uploads, one of them under a file name, in which at most the metadata
\* file write fails.
ChunkAndStoreMetaFault ==
    ChunkAndStoreFrom({NoSource, "a.pdf"}, {"none", "meta_open"})

NextRetrieve ==
    \/ Construct
    \/ ChunkAndStoreMetaFault
    \/ QueryCall
    \/ RetrieveContextCall

SpecRetrieve == Init /\ [][NextRetrieve]_vars

\* ------------------------------------------- keyword_search, on its inputs
\* The full texts are up to MaxLines lines joined by line feeds; top_k runs
\* up to MaxTopK.  4 is a third letter.
MaxLines == 3
MaxTopK == 2
KeywordLines == {<<>>, <<SP>>, <<1>>, <<2>>, <<UpperA, SP, 2>>, <<4>>}
FullTexts ==
    {Join(ls, <<NL>>) :
        ls \in UNION {[1..n -> KeywordLines] : n \in 0..MaxLines}}
KeywordQueries == {<<>>, <<1>>, <<2>>, <<UpperA>>, <<1, SP, 2>>,
                   <<2, SP, SP, 2>>, <<2, NL, 1>>, <<1, 2>>}

InitKeyword ==
    /\ index = <<>>
    /\ ids = <<>>
    /\ documents = <<>>
    /\ metadatas = <<>>
    /\ disk_index = AbsentIndex
    /\ disk_meta = AbsentMeta
    /\ last \in [op : {"input"}, full_text : FullTexts,
                 query : KeywordQueries, top_k : 0..MaxTopK]

\* keyword_search(full_text, query, top_k)
KeywordSearchCall ==
    /\ last.op = "input"
    /\ UNCHANGED store
    /\ last' = [op |-> "keyword_search", full_text |-> last.full_text,
                query |-> last.query, top_k |-> last.top_k,
                ret |-> KeywordSearch(last.full_text, last.query, last.top_k)]

NextKeyword == KeywordSearchCall

SpecKeyword == InitKeyword /\ [][NextKeyword]_vars

\* ------------------------------------------------------- the text splitters
\* get_text_splitter hands chunk_size and chunk_overlap to one of the two
\* splitters of langchain_text_splitters.

\* The characters one token of the encoding spans (the byte-pair encoding
\* merges neighbouring characters into one token).
TokenChars == 2
\* tokenizer.encode
RECURSIVE Tokenize(_)
Tokenize(text) ==
    IF text = <<>> THEN <<>>
    ELSE LET n == Min(TokenChars, Len(text))
         IN  <<SubSeq(text, 1, n)>> \o Tokenize(SubSeq(text, n + 1, Len(text)))

\* (variant: each window starts one token after the end of the one before)
RECURSIVE SplitOnTokensSkipping(_, _, _, _)
SplitOnTokensSkipping(input_ids, start, size, overlap) ==
    IF start > Len(input_ids) THEN <<>>
    ELSE LET cur == Min(start + size - 1, Len(input_ids))
         IN  <<Join(SubSeq(input_ids, start, cur), <<>>)>>
             \o (IF cur = Len(input_ids) THEN <<>>
                 ELSE SplitOnTokensSkipping(input_ids, start + size + 1, size,
                                            overlap))
\* TokenTextSplitter.split_text for chunk_overlap < chunk_size: the windows of
\* chunk_size tokens, each starting chunk_size - chunk_overlap tokens after
\* the one before, decoded (the characters of the tokens joined).
RECURSIVE SplitOnTokens(_, _, _, _)
SplitOnTokens(input_ids, start, size, overlap) ==
    IF start > Len(input_ids) THEN <<>>
    ELSE LET cur == Min(start + size - 1, Len(input_ids))
         IN  <<Join(SubSeq(input_ids, start, cur), <<>>)>>
             \o (IF cur = Len(input_ids) THEN <<>>
                 ELSE SplitOnTokens(input_ids, start + size - overlap, size,
                                    overlap))


\* str.strip
RECURSIVE Strip(_)
Strip(text) ==
    IF text = <<>> THEN text
    ELSE IF text[1] \in Whitespace THEN Strip(Tail(text))
    ELSE IF text[Len(text)] \in Whitespace
         THEN Strip(SubSeq(text, 1, Len(text) - 1))
    ELSE text

\* re.split(separator, text): the pieces between the occurrences.
StartsAt(text, i, sep) ==
    /\ i + Len(sep) - 1 <= Len(text)
    /\ SubSeq(text, i, i + Len(sep) - 1) = sep
RECURSIVE RawSplit(_, _)
RawSplit(text, sep) ==
    IF ~Contains(text, sep) THEN <<text>>
    ELSE LET i == CHOOSE i \in 1..Len(text) :
                     /\ StartsAt(text, i, sep)
                     /\ \A j \in 1..(i - 1) : ~StartsAt(text, j, sep)
         IN  <<SubSeq(text, 1, i - 1)>>
             \o RawSplit(SubSeq(text, i + Len(sep), Len(text)), sep)

\* The pieces of the text at a separator, each occurrence kept at the front
\* of the piece that follows it; the single characters for the empty
\* separator; empty pieces dropped.
SplitWithRegex(text, sep) ==
    IF sep = <<>> THEN [i \in 1..Len(text) |-> <<text[i]>>]
    ELSE LET raw == RawSplit(text, sep)
             pieces == [k \in 1..Len(raw) |->
                           IF k = 1 THEN raw[1] ELSE sep \o raw[k]]
         IN  SelectSeq(pieces, LAMBDA s : s # <<>>)

\* The pieces joined and stripped: one chunk, or none if nothing is left.
JoinDocs(docs) ==
    LET text == Strip(Join(docs, <<>>))
    IN  IF text = <<>> THEN <<>> ELSE <<text>>

\* The pieces dropped from the front of the chunk just closed, until what is
\* left is no longer than the overlap and has room for the next piece.
RECURSIVE DropFront(_, _, _, _)
DropFront(current_doc, len, size, overlap) ==
    LET total == Len(Join(current_doc, <<>>))
    IN  IF total > overlap \/ (total + len > size /\ total > 0)
        THEN DropFront(Tail(current_doc), len, size, overlap)
        ELSE current_doc

\* Small pieces merged into chunks of at most size characters: the pieces
\* from the i-th on, current_doc holding those of the chunk being built.
RECURSIVE MergeFrom(_, _, _, _, _)
MergeFrom(splits, i, current_doc, size, overlap) ==
    IF i > Len(splits) THEN JoinDocs(current_doc)
    ELSE IF Len(Join(current_doc, <<>>)) + Len(splits[i]) > size
            /\ current_doc # <<>>
         THEN JoinDocs(current_doc)
              \o MergeFrom(splits, i + 1,
                     Append(DropFront(current_doc, Len(splits[i]), size,
                                      overlap), splits[i]),
                     size, overlap)
    ELSE MergeFrom(splits, i + 1, Append(current_doc, splits[i]), size,
                   overlap)

\* RecursiveCharacterTextSplitter.split_text: the text is cut at the first
\* separator it holds; pieces shorter than chunk_size are merged, a longer
\* piece is cut at the separators that follow.
RECURSIVE CharSplitWith(_, _, _, _)
RECURSIVE CharSplitPieces(_, _, _, _, _, _)
CharSplitWith(text, separators, size, overlap) ==
    LET k == CHOOSE k \in 1..Len(separators) :
                 /\ separators[k] = <<>> \/ Contains(text, separators[k])
                 /\ \A j \in 1..(k - 1) :
                        separators[j] # <<>>
                        /\ ~Contains(text, separators[j])
        new_separators == IF separators[k] = <<>> THEN <<>>
                          ELSE SubSeq(separators, k + 1, Len(separators))
    IN  CharSplitPieces(SplitWithRegex(text, separators[k]), 1, <<>>,
                        new_separators, size, overlap)
CharSplitPieces(splits, i, good_splits, new_separators, size, overlap) ==
    IF i > Len(splits) THEN MergeFrom(good_splits, 1, <<>>, size, overlap)
    ELSE IF Len(splits[i]) < size
         THEN CharSplitPieces(splits, i + 1, Append(good_splits, splits[i]),
                              new_separators, size, overlap)
    ELSE MergeFrom(good_splits, 1, <<>>, size, overlap)
         \o (IF new_separators = <<>> THEN <<splits[i]>>
             ELSE CharSplitWith(splits[i], new_separators, size, overlap))
         \o CharSplitPieces(splits, i + 1, <<>>, new_separators, size,
                            overlap)
\* RecursiveCharacterTextSplitter.split_text with its separators "\n\n",
\* "\n", " " and "", tried in this order.
CharSplit(text, size, overlap) ==
    CharSplitWith(text, <<(<<NL, NL>>), (<<NL>>), (<<SP>>), (<<>>)>>, size,
                  overlap)

\* -------------------------------------------------------- get_text_splitter
\* method  CHUNKING_METHOD: "token" (the default), or any other value
\*         ("character").
\* fault   what fails in the token splitter:
\*           token_init   TokenTextSplitter(...) raises (tiktoken or its
\*                        encoding is not available)
\*           token_split  split_text raises (the tokenizer refuses the text)
\* build   the installed split_text_on_tokens checks that chunk_overlap is
\*         smaller than chunk_size before its loop ("checked") or does not
\*         ("unchecked").

\* get_text_splitter: the splitter returned, or the exception raised.
GetTextSplitter(method, size, overlap, fault) ==
    \* TextSplitter.__init__, run by the constructor of either splitter,
    \* raises when chunk_overlap is larger than chunk_size
    LET init_raises == overlap > size
    IN  IF method = "token"
        THEN IF ~(fault = "token_init" \/ init_raises)
             THEN [kind |-> "token", raised |-> FALSE]
             ELSE [kind |-> "character", raised |-> init_raises]
        ELSE [kind |-> "character", raised |-> init_raises]

SplitOutcome(chunks, raised, hangs) ==
    [chunks |-> chunks, raised |-> raised, hangs |-> hangs]

\* text_splitter.split_text(text), line 58: the chunks, or the exception, or
\* a loop that never ends (the window of the token splitter does not advance
\* when chunk_overlap = chunk_size and the text has more tokens than one
\* window).
SplitTextWith(kind, text, size, overlap, fault, build) ==
    IF kind = "character"
    THEN SplitOutcome(CharSplit(text, size, overlap), FALSE, FALSE)
    ELSE IF fault = "token_split" THEN SplitOutcome(<<>>, TRUE, FALSE)
    ELSE IF overlap >= size /\ build = "checked"
         THEN SplitOutcome(<<>>, TRUE, FALSE)
    ELSE IF overlap >= size /\ Len(Tokenize(text)) > size
         THEN SplitOutcome(<<>>, FALSE, TRUE)
    ELSE SplitOutcome(SplitOnTokens(Tokenize(text), 1, size, overlap),
                      FALSE, FALSE)

\* chunk_and_store(text, collection, source, chunk_size, chunk_overlap), the
\* arguments and the splitter's configuration and failures in the record a:
\* the attributes, the files, the chunks, the return value, whether it raised
\* and whether it is still running.
ChunkAndStoreSized(mem, disk, call, source, a) ==
    LET unchanged == [mem |-> mem, disk |-> disk, raised |-> FALSE,
                      hangs |-> FALSE, chunks |-> <<>>, kind |-> "none",
                      ret |-> <<0, FALSE>>]
        splitter == GetTextSplitter(a.method, a.chunk_size, a.chunk_overlap,
                                    a.fault)
        split == SplitTextWith(splitter.kind, a.text, a.chunk_size,
                               a.chunk_overlap, a.fault, a.build)
    IN  IF SourceExists(mem, source)
        THEN [unchanged EXCEPT !.ret = AlreadyExistsReturn(mem, source)]
        ELSE IF splitter.raised THEN [unchanged EXCEPT !.raised = TRUE]
        ELSE IF split.raised
             THEN [unchanged EXCEPT !.raised = TRUE, !.kind = splitter.kind]
        ELSE IF split.hangs
             THEN [unchanged EXCEPT !.hangs = TRUE, !.kind = splitter.kind]
        ELSE LET r == Add(mem, disk, NewIds(call, Len(split.chunks)),
                          split.chunks,
                          ChunkMetadatas(split.chunks, source), "none")
             IN  [mem |-> r.mem, disk |-> r.disk, raised |-> r.raised,
                  hangs |-> FALSE, chunks |-> split.chunks,
                  kind |-> splitter.kind,
                  ret |-> <<Len(split.chunks), FALSE>>]

\* ------------------------------------------ chunk_and_store, on its inputs
\* The texts: every text of up to MaxSplitLen letters and spaces, two texts
\* with line feeds, and a text 2.5 times as long as the chunk size the
\* handlers pass.
MaxSplitLen == 4
\* chunk_size runs from 1 to MaxChunkSize, chunk_overlap from 0 to it.
MaxChunkSize == 3
\* chunk_size=1000 and chunk_overlap=200 of the handlers, at a hundredth.
HandlerChunkSize == 10
HandlerChunkOverlap == 2
SplitInputs ==
    {i \in [op : {"input"},
            text : UNION {[1..n -> {1, 2, SP}] : n \in 0..MaxSplitLen}
                   \cup {<<1, NL, NL, 2>>, <<1, SP, 2, NL, 1, 2>>},
            chunk_size : 1..MaxChunkSize, chunk_overlap : 0..MaxChunkSize,
            method : {"token", "character"},
            fault : {"none", "token_init", "token_split"},
            build : {"checked", "unchecked"}] :
        /\ i.method = "character" => i.fault = "none"
        /\ i.build = "unchecked" =>
               /\ i.method = "token"
               /\ i.fault = "none"
               /\ i.chunk_overlap = i.chunk_size}
    \cup [op : {"input"}, text : {Alternating(25)},
          chunk_size : {HandlerChunkSize},
          chunk_overlap : {HandlerChunkOverlap},
          method : {"token", "character"}, fault : {"none"},
          build : {"checked"}]

InitSplit ==
    /\ index = <<>>
    /\ ids = <<>>
    /\ documents = <<>>
    /\ metadatas = <<>>
    /\ disk_index = AbsentIndex
    /\ disk_meta = AbsentMeta
    /\ last \in SplitInputs

\* chunk_and_store(text, collection, source="a.pdf", chunk_size,
\* chunk_overlap) on the empty collection
ChunkAndStoreSizedCall ==
    /\ last.op = "input"
    /\ \E r \in {ChunkAndStoreSized(Mem, Disk, NextCall(Mem, Disk), "a.pdf",
                                   last)} :
           /\ SetMem(r.mem)
           /\ SetDisk(r.disk)
           /\ last' = [op |-> "chunk_and_store", text |-> last.text,
                       chunk_size |-> last.chunk_size,
                       chunk_overlap |-> last.chunk_overlap,
                       method |-> last.method, fault |-> last.fault,
                       build |-> last.build, kind |-> r.kind,
                       chunks |-> r.chunks, raised |-> r.raised,
                       hangs |-> r.hangs, ret |-> r.ret]

SpecSplit == InitSplit /\ [][ChunkAndStoreSizedCall]_vars

\* ------------------------------- chunk_and_store, the existence check failing
\* collection.get(where={"source": source}) of line 50 returns, or raises
\* (check).

\* (variant: the exception of the existence check leaves chunk_and_store)
CheckErrorPropagates(check) == check = "raises"
\* lines 53-55: whether an exception of the existence check leaves
\* chunk_and_store
CheckErrorRaises(check) == FALSE

\* lines 57-73: the text chunked and stored
StoreChunks(mem, disk, call, text, source, fault) ==
    LET chunks == SplitText(text)
        r == Add(mem, disk, NewIds(call, Len(chunks)), chunks,
                 ChunkMetadatas(chunks, source), fault)
    IN  [r EXCEPT !.ret = IF r.raised THEN <<0, FALSE>>
                          ELSE <<Len(chunks), FALSE>>]

\* chunk_and_store with the outcome of the existence check as an input
ChunkAndStoreChecked(mem, disk, call, text, source, check, fault) ==
    IF source # NoSource /\ check = "raises"
    THEN IF CheckErrorRaises(check)
         THEN [mem |-> mem, disk |-> disk, raised |-> TRUE, fault |-> "get",
               ret |-> <<0, FALSE>>]
         ELSE StoreChunks(mem, disk, call, text, source, fault)
    ELSE ChunkAndStore(mem, disk, call, text, source, fault)

\* chunk_and_store(text, collection, source); last keeps the arguments and
\* what the existence check did ("none" if it was not made).
ChunkAndStoreCheckedCall ==
    \E text \in Texts, source \in {NoSource, "a.pdf"},
       check \in {"returns", "raises"} :
        /\ Len(documents) + Len(SplitText(text)) <= MaxEntries
        /\ Len(index) + Len(SplitText(text)) <= MaxRows
        /\ \E r \in {ChunkAndStoreChecked(Mem, Disk, NextCall(Mem, Disk),
                                         text, source, check, "none")} :
               /\ SetMem(r.mem)
               /\ SetDisk(r.disk)
               /\ last' = [op |-> "chunk_and_store", fault |-> r.fault,
                           raised |-> r.raised, ret |-> r.ret,
                           text |-> text, source |-> source,
                           check |-> IF source = NoSource THEN "none"
                                     ELSE check]

NextChecked ==
    \/ Construct
    \/ ChunkAndStoreCheckedCall

SpecChecked == Init /\ [][NextChecked]_vars

\* ------------------------------------------ two callers of chunk_and_store
\* Two calls of chunk_and_store on the one collection, each seen at its two
\* effects: the existence check (lines 48-55) and the store (lines 57-73).
\* The calls are made from coroutines of one event loop, where a call runs
\* from its check to its add with no other call in between (chunk_and_store
\* holds no await), or from threads, where the steps of the calls interleave
\* freely (the collection takes no lock).
Writers == {1, 2}
IdleWriter == [pc |-> "idle", text |-> <<>>, source |-> NoSource,
               ret |-> <<0, FALSE>>]

InitWriters ==
    /\ index = <<>>
    /\ ids = <<>>
    /\ documents = <<>>
    /\ metadatas = <<>>
    /\ disk_index = AbsentIndex
    /\ disk_meta = AbsentMeta
    /\ last \in [op : {"init"}, schedule : {"event_loop", "threads"},
                 writer : {[w \in Writers |-> IdleWriter]}]

\* (variant: the steps of the calls interleave under either schedule)
RunsAnyTime(w) == TRUE
\* Whether the schedule lets caller w start now.
RunsAlone(w) ==
    last.schedule = "event_loop" =>
        \A v \in Writers \ {w} : last.writer[v].pc = "idle"

\* lines 48-55: the call returns (0, True), or goes on to chunk the text
\* (the guard leaves room for the chunks the calls past their check are
\* about to add)
WriterCheck(w) ==
    \E text \in Texts, source \in Sources \ {NoSource} :
        /\ last.writer[w].pc = "idle"
        /\ RunsAlone(w)
        /\ \A v \in Writers \ {w} :
               Len(documents) + Len(SplitText(text))
               + (IF last.writer[v].pc = "checked"
                  THEN Len(SplitText(last.writer[v].text)) ELSE 0)
                   <= MaxEntries
        /\ UNCHANGED store
        /\ last' = [last EXCEPT
               !.op = "check",
               !.writer[w] =
                   IF SourceExists(Mem, source)
                   THEN [IdleWriter EXCEPT
                            !.ret = AlreadyExistsReturn(Mem, source)]
                   ELSE [IdleWriter EXCEPT !.pc = "checked", !.text = text,
                                           !.source = source]]

\* lines 57-73: the chunks stored, the call returns
WriterAdd(w) ==
    /\ last.writer[w].pc = "checked"
    /\ \E r \in {StoreChunks(Mem, Disk, NextCall(Mem, Disk),
                            last.writer[w].text, last.writer[w].source,
                            "none")} :
           /\ SetMem(r.mem)
           /\ SetDisk(r.disk)
           /\ last' = [last EXCEPT
                  !.op = "add",
                  !.writer[w] = [IdleWriter EXCEPT !.ret = r.ret]]

NextWriters == \E w \in Writers : WriterCheck(w) \/ WriterAdd(w)

SpecWriters == InitWriters /\ [][NextWriters]_vars

\* ------------------------------------------------------ the read operations
\* get, query, count, retrieve_context and keyword_search seen with what they
\* leave of the collection: none of them assigns an attribute, adds to the
\* index or calls _persist.

\* (variant: a read that ends with _persist)
ReadPersists(mem, disk) == [mem |-> mem, disk |-> Persist(mem, disk, "none")]
\* The attributes and the files after a read operation.
ReadLeaves(mem, disk) == [mem |-> mem, disk |-> disk]

\* The read's outcome recorded, the collection as the read leaves it.
Read(op, raised, ret) ==
    /\ SetMem(ReadLeaves(Mem, Disk).mem)
    /\ SetDisk(ReadLeaves(Mem, Disk).disk)
    /\ last' = [op |-> op, fault |-> "none", raised |-> raised, ret |-> ret]

\* collection.get(where)
GetRead == \E where \in Wheres : Read("get", FALSE, Get(Mem, where).ids)

\* collection.count()
CountRead == Read("count", FALSE, Count(Mem))

\* collection.query(query_texts, n_results)
QueryRead ==
    \E query_texts \in {<<>>} \cup {<<q>> : q \in Queries},
       n_results \in NResults, fault \in QueryFaults :
        \E r \in {Query(Mem, query_texts, n_results, fault)} :
            Read("query", r.raised, r.documents)

\* retrieve_context(query, collection, n_results, fallback_text)
RetrieveContextRead ==
    \E coll \in Collections, query \in Queries, n_results \in NResults,
       fallback_text \in Fallbacks, fault \in RetrieveFaults :
        \E r \in {RetrieveContext(coll, Mem, query, n_results, fallback_text,
                                 fault)} :
            Read("retrieve_context", r.raised, r.ret)

\* keyword_search(full_text, query, top_k)
KeywordSearchRead ==
    \E full_text \in Fallbacks, query \in Queries, top_k \in NResults :
        Read("keyword_search", FALSE, KeywordSearch(full_text, query, top_k))

NextReads ==
    \/ Construct
    \/ ChunkAndStoreMetaFault
    \/ GetRead
    \/ CountRead
    \/ QueryRead
    \/ RetrieveContextRead
    \/ KeywordSearchRead

SpecReads == Init /\ [][NextReads]_vars

\* ------------------------------------------------------ conversation memory
\* config.py, line 29: chat_memory = deque(maxlen=10).  In the specifications
\* of the chat endpoints the deque is kept in last.chat_memory.
ChatMemoryMaxLen == 10
chat_memory == last.chat_memory

\* deque.append: at maxlen the oldest message is dropped.
DequeAppend(memory, message) ==
    IF Len(memory) >= ChatMemoryMaxLen THEN Append(Tail(memory), message)
    ELSE Append(memory, message)

\* remember_exchange, line 152 and line 153; an exchange is told from the
\* others by the number of its request.
Message(role, text) == [role |-> role, content |-> text]

\* The threads that run remember_exchange: the generators of /chat/stream
\* are plain generators, which the streaming response iterates on worker
\* threads, so the two appends of one call and those of another interleave.
Callers == {1, 2}
\* The requests are numbered from 1 to MaxRequests; running[c] is the
\* request whose remember_exchange call thread c is in, 0 if it is in none.
MaxRequests == 6

InitMemory ==
    /\ index = <<>>
    /\ ids = <<>>
    /\ documents = <<>>
    /\ metadatas = <<>>
    /\ disk_index = AbsentIndex
    /\ disk_meta = AbsentMeta
    /\ last = [op |-> "init", chat_memory |-> <<>>, requests |-> 0,
               running |-> [c \in Callers |-> 0]]

\* remember_exchange, line 152: the user message appended
RememberUser(c) ==
    /\ last.running[c] = 0
    /\ last.requests < MaxRequests
    /\ UNCHANGED store
    /\ last' = [op |-> "append_user",
                chat_memory |->
                    DequeAppend(chat_memory, Message("user", last.requests + 1)),
                requests |-> last.requests + 1,
                running |-> [last.running EXCEPT ![c] = last.requests + 1]]

\* remember_exchange, line 153: the assistant message appended, the call
\* returns
RememberAssistant(c) ==
    /\ last.running[c] # 0
    /\ UNCHANGED store
    /\ last' = [last EXCEPT
           !.op = "append_assistant",
           !.chat_memory =
               DequeAppend(chat_memory, Message("assistant", last.running[c])),
           !.running[c] = 0]

NextMemory == \E c \in Callers : RememberUser(c) \/ RememberAssistant(c)

SpecMemory == InitMemory /\ [][NextMemory]_vars

\* ------------------------------------------------------------------- /chat
\* The handler of POST /chat.  It is a coroutine without an await after its
\* first line, so its requests run one at a time; the collection of the model
\* stands for the collection of the mode the request selects.
ContextModes == {"video", "audio", "pdf", "image"}
\* The branch taken: lines 166, 224, 243, 265, 287, 310.
ChatMode(flags) ==
    IF "use_sql" \in flags THEN "sql"
    ELSE IF "use_video" \in flags THEN "video"
    ELSE IF "use_audio" \in flags THEN "audio"
    ELSE IF "use_pdf" \in flags THEN "pdf"
    ELSE IF "use_image" \in flags THEN "image"
    ELSE "normal"

\* n_results=5, lines 225, 244, 266, 289
ChatNResults == 5
\* request.sql is what the SQL mode meets: no database, a query that runs,
\* or an exception of the model or of the database; request.llm is whether
\* send_ollama_chat returns or raises.

\* line 162
IsBlankMessage(message) == Strip(message) = <<>>

\* (variant: the context is never taken for missing)
ContextNeverMissing(mode, context) == FALSE
\* lines 227, 246, 268, 291
NoContext(mode, context) ==
    \/ context = <<>>
    \/ mode = "image" /\ Strip(context) = <<>>

\* remember_exchange called from the handler
RememberExchange(memory, user_text, assistant_text) ==
    DequeAppend(DequeAppend(memory, Message("user", user_text)),
                Message("assistant", assistant_text))

\* The replies: the error of line 163, the fixed replies of lines 228-231,
\* 247-250, 269-272, 293-296 and 170-173, the formatted reply of the model,
\* the errors of the except clauses.
EmptyMessageError == <<"error", "Message cannot be empty">>
NoContextReply(mode) == <<"reply", "no context", mode>>
ModelReply(mode) == <<"reply", "Ollama", mode>>
\* format_reply_with_model(ollama_reply), the text that is remembered
FormattedReply == "formatted reply"
FailedReply(mode) == <<"error", "failed", mode>>

ChatReturns(memory, reply, method, context, calls) ==
    [chat_memory |-> memory, reply |-> reply, raised |-> FALSE,
     method |-> method, context_empty |-> context = <<>>, calls |-> calls]

\* send_ollama_chat and what follows it: lines 236-240 (no except clause in
\* the video mode), 255-262, 277-284, 301-308, 311-320.
AskModel(memory, message, mode, method, context, calls, llm) ==
    IF llm = "raises"
    THEN [ChatReturns(memory, FailedReply(mode), method, context,
                      calls \cup {"llm"})
             EXCEPT !.raised = mode = "video"]
    ELSE ChatReturns(RememberExchange(memory, message, FormattedReply),
                     ModelReply(mode), method, context, calls \cup {"llm"})

\* chat(request): the memory it leaves, its reply, whether it raised, the
\* method and emptiness of the context it retrieved, and the collaborators it
\* called.
Chat(memory, mem, request) ==
    LET mode == ChatMode(request.flags)
    IN  IF IsBlankMessage(request.message)
        THEN ChatReturns(memory, EmptyMessageError, "", <<0>>, {})
        ELSE IF mode = "sql"
        THEN CASE request.sql = "no_database" ->
                      ChatReturns(memory, NoContextReply(mode), "", <<0>>, {})
               [] request.sql = "fails" ->
                      ChatReturns(memory, FailedReply(mode), "", <<0>>,
                                  {"llm"})
               [] OTHER ->
                      ChatReturns(RememberExchange(memory, request.message,
                                                   FormattedReply),
                                  ModelReply(mode), "", <<0>>, {"llm"})
        ELSE IF mode \in ContextModes
        THEN LET r == RetrieveContext(request.collection, mem,
                                      request.message, ChatNResults,
                                      NoFallback, request.fault)
             IN  IF NoContext(mode, r.ret[1])
                 THEN ChatReturns(memory, NoContextReply(mode), r.ret[2],
                                  r.ret[1], r.calls)
                 ELSE AskModel(memory, request.message, mode, r.ret[2],
                               r.ret[1], r.calls, request.llm)
        ELSE AskModel(memory, request.message, mode, "", <<0>>, {},
                      request.llm)

\* The requests; what a branch does not look at is left at its first value.
MaxChats == 2
ChatRequests ==
    {r \in [message : {<<>>, <<SP>>, <<1>>, <<2, SP>>},
            flags : SUBSET {"use_sql", "use_video", "use_audio", "use_pdf",
                            "use_image"},
            collection : Collections, fault : RetrieveFaults,
            sql : {"no_database", "answers", "fails"},
            llm : {"none", "raises"}] :
        LET mode == ChatMode(r.flags)
            blank == IsBlankMessage(r.message)
        IN  /\ (blank \/ mode # "sql") => r.sql = "no_database"
            /\ (blank \/ mode \notin ContextModes) =>
                   r.collection = "collection" /\ r.fault = "none"
            /\ (blank \/ mode = "sql") => r.llm = "none"}

NoChat == [op |-> "init", chat_memory |-> <<>>, reply |-> <<>>,
           raised |-> FALSE, method |-> "", context_empty |-> FALSE,
           calls |-> {}, mode |-> "", blank |-> FALSE]

InitChat ==
    /\ index = <<>>
    /\ ids = <<>>
    /\ documents = <<>>
    /\ metadatas = <<>>
    /\ disk_index = AbsentIndex
    /\ disk_meta = AbsentMeta
    /\ last = NoChat

\* An upload into the collection: chunk_and_store(text, collection, "a.pdf")
ChatUpload ==
    \E text \in Texts :
        /\ Len(documents) + Len(SplitText(text)) <= MaxEntries
        /\ Len(index) + Len(SplitText(text)) <= MaxRows
        /\ \E r \in {ChunkAndStore(Mem, Disk, NextCall(Mem, Disk), text,
                                  "a.pdf", "none")} :
               /\ SetMem(r.mem)
               /\ SetDisk(r.disk)
               /\ last' = [NoChat EXCEPT !.op = "upload",
                                         !.chat_memory = chat_memory]

\* POST /chat
ChatCall ==
    \E request \in ChatRequests :
        /\ Len(chat_memory) < 2 * MaxChats
        /\ UNCHANGED store
        /\ \E r \in {Chat(chat_memory, Mem, request)} :
               last' = [op |-> "chat", chat_memory |-> r.chat_memory,
                        reply |-> r.reply, raised |-> r.raised,
                        method |-> r.method,
                        context_empty |-> r.context_empty,
                        calls |-> r.calls,
                        mode |-> ChatMode(request.flags),
                        blank |-> IsBlankMessage(request.message)]

NextChat ==
    \/ ChatUpload
    \/ ChatCall

SpecChat == InitChat /\ [][NextChat]_vars

\* ================================================================= claims
IsPrefix(s, t) == Len(s) <= Len(t) /\ SubSeq(t, 1, Len(s)) = s
RealSources == Sources \ {NoSource}
HasSource(meta, s) == <<"source", s>> \in meta

\* C1: after every completed operation, a restart that reloads the persisted
\* files included, ids, documents, metadatas and the index have the same
\* length.
C1_ListsAndIndexSameLength ==
    /\ Len(ids) = Len(documents)
    /\ Len(documents) = Len(metadatas)
    /\ Len(metadatas) = Len(index)

\* C2: add, get and count keep the lists and the index rows they found as a
\* prefix of what they leave (nothing reordered or removed), and after every
\* operation the entry at position i is the one whose vector is row i of the
\* index.
C2_AppendOnlyRowCorrespondence ==
    [][/\ last'.op \in {"add", "chunk_and_store", "get", "count"} =>
            /\ IsPrefix(ids, ids')
            /\ IsPrefix(documents, documents')
            /\ IsPrefix(metadatas, metadatas')
            /\ IsPrefix(index, index')
       /\ \A i \in 1..Len(documents') :
            i <= Len(index') /\ index'[i] = EncodeOne(documents'[i])]_vars

\* C3 as claimed: for every text and every source, when two chunk_and_store
\* calls with the same arguments follow one another and both return, the
\* second returns (0, True) and leaves count() as the first left it.
C3_EveryRepeatIsDuplicate ==
    \A text \in Texts, source \in Sources :
        \A r1 \in {ChunkAndStore(Mem, Disk, NextCall(Mem, Disk), text,
                                 source, "none")} :
        \A r2 \in {ChunkAndStore(r1.mem, r1.disk, NextCall(r1.mem, r1.disk),
                                 text, source, "none")} :
            r2.ret = <<0, TRUE>> /\ Count(r2.mem) = Count(r1.mem)

\* C3 as amended: for every text that yields at least one chunk and every
\* non-empty source, when the first call returns normally (whatever write
\* failure it met), the immediately following call with the same arguments
\* returns (0, True), whatever would fail in it, and leaves count() unchanged.
C3_RepeatWithSourceIsDuplicate ==
    \A call \in {NextCall(Mem, Disk)} :
    \A text \in Texts, source \in RealSources, f1 \in Faults :
        \A r1 \in {ChunkAndStore(Mem, Disk, call, text, source, f1)} :
            (SplitText(text) # <<>> /\ ~r1.raised) =>
                \A f2 \in Faults :
                \A r2 \in {ChunkAndStore(r1.mem, r1.disk,
                                         NextCall(r1.mem, r1.disk), text,
                                         source, f2)} :
                    /\ ~r2.raised
                    /\ r2.ret = <<0, TRUE>>
                    /\ Count(r2.mem) = Count(r1.mem)

\* A call has found its source stored and returned (0, True).
C3_Witness ==
    /\ last.op = "chunk_and_store"
    /\ last.ret = <<0, TRUE>>
    /\ \E i \in 1..Len(metadatas), s \in RealSources :
           HasSource(metadatas[i], s)

\* C4: the entries that carry one source value all come from one
\* chunk_and_store call (one uuid batch), and a call with a source that has
\* entries leaves the lists, the index and both files as they are.
C4_OneCallPerSource ==
    /\ \A s \in RealSources :
         \A i \in 1..Len(metadatas), j \in 1..Len(metadatas) :
            (HasSource(metadatas[i], s) /\ HasSource(metadatas[j], s)) =>
                ids[i][1] = ids[j][1]
    /\ \A s \in RealSources :
         (\E i \in 1..Len(metadatas) : HasSource(metadatas[i], s)) =>
            \A call \in {NextCall(Mem, Disk)} :
            \A text \in Texts, fault \in Faults :
            \A r \in {ChunkAndStore(Mem, Disk, call, text, s, fault)} :
                r.mem = Mem /\ r.disk = Disk

\* Two entries share a source and a later call with a stored source was
\* turned away.
C4_Witness ==
    /\ last.op = "chunk_and_store"
    /\ last.ret[2]
    /\ \E s \in RealSources :
         \E i \in 1..Len(metadatas), j \in 1..Len(metadatas) :
            i # j /\ HasSource(metadatas[i], s) /\ HasSource(metadatas[j], s)

\* C5: a chunk_and_store call that splits its text into N chunks and stores
\* them returns (N, False), raises count() by N, and leaves chunk j at
\* position old_count + j of ids, documents and metadatas.
C5_StoresChunksInOrder ==
    \A call \in {NextCall(Mem, Disk)}, old \in {Count(Mem)} :
    \A text \in Texts, source \in Sources, fault \in Faults :
        \A r \in {ChunkAndStore(Mem, Disk, call, text, source, fault)},
           chunks \in {SplitText(text)} :
        LET n == Len(chunks)
        IN  (~r.raised /\ ~r.ret[2]) =>
                /\ r.ret = <<n, FALSE>>
                /\ Count(r.mem) = old + n
                /\ Len(r.mem.ids) = old + n
                /\ Len(r.mem.metadatas) = old + n
                /\ \A j \in 1..n :
                      /\ r.mem.documents[old + j] = chunks[j]
                      /\ r.mem.ids[old + j] = NewIds(call, n)[j]
                      /\ r.mem.metadatas[old + j]
                            = ChunkMetadatas(chunks, source)[j]

\* A call stored the chunk of a text, with its source, behind an older entry.
C5_Witness ==
    /\ last.op = "chunk_and_store"
    /\ last.ret = <<1, FALSE>>
    /\ ~last.raised
    /\ Len(documents) = 2
    /\ documents[2] = Alternating(2)
    /\ documents[1] # documents[2]
    /\ HasSource(metadatas[2], "a.pdf")
    /\ ids[2][1] # ids[1][1]

\* C6: a chunk_and_store call that returns already_exists = True returns
\* chunks_created = 0 and leaves ids, documents, metadatas, the index and both
\* files unchanged.
C6_DuplicateChangesNothing ==
    [][(last'.op = "chunk_and_store" /\ last'.ret[2]) =>
            /\ last'.ret[1] = 0
            /\ UNCHANGED store]_vars

\* A duplicate was turned away while both files held the stored entries.
C6_Witness ==
    /\ last.op = "chunk_and_store"
    /\ last.ret[2]
    /\ disk_index = IndexFile(index)
    /\ disk_meta = MetaFile(documents, metadatas, ids)
    /\ Len(documents) > 0

\* C7: a new FAISSCollection on the same name and persist directory has the
\* count() and the get({}) of the collection it replaces.
C7_ReloadRoundTrip ==
    [][last'.op = "construct" =>
            /\ Count(Mem)' = Count(Mem)
            /\ Get(Mem, {})' = Get(Mem, {})]_vars

\* C8: an add (alone or inside chunk_and_store) whose index file or metadata
\* file write failed raises.
C8_WriteFailureSurfaces ==
    (last.op \in {"add", "chunk_and_store"} /\ last.fault \in PersistFaults)
        => last.raised

\* C9: a collection constructed while the index file or the metadata file is
\* missing or does not load, or while the metadata file lacks a key, was
\* constructed without raising and has an empty index and empty lists.
C9_LoadFailureStartsEmpty ==
    (/\ last.op = "construct"
     /\ \/ disk_index.state # "ok"
        \/ disk_meta.state # "ok"
        \/ disk_meta.keys # MetaKeys)
        => /\ ~last.raised
           /\ index = <<>>
           /\ ids = <<>>
           /\ documents = <<>>
           /\ metadatas = <<>>

\* A collection was constructed over a loadable index file with rows and a
\* metadata file that holds documents but lacks a key.
C9_Witness ==
    /\ last.op = "construct"
    /\ disk_index.state = "ok"
    /\ Len(disk_index.rows) > 0
    /\ disk_meta.state = "ok"
    /\ disk_meta.keys = MetaKeys \ {"ids"}
    /\ Len(disk_meta.documents) > 0
    /\ documents = <<>>

\* C10: an add (alone or inside chunk_and_store) in which encode or index.add
\* fails raises and leaves ids, documents, metadatas, the index and both files
\* unchanged.
C10_FailedAddChangesNothing ==
    [][(/\ last'.op \in {"add", "chunk_and_store"}
        /\ last'.fault \in {"encode", "index_add"}) =>
            /\ last'.raised
            /\ UNCHANGED store]_vars

\* index.add failed in an add on a collection that holds persisted entries.
C10_Witness ==
    /\ last.op \in {"add", "chunk_and_store"}
    /\ last.fault = "index_add"
    /\ last.raised
    /\ Len(documents) > 0
    /\ disk_meta = MetaFile(documents, metadatas, ids)

\* C11: within an add the attributes are updated first, then the index file
\* is written, then the metadata file: the index file is only written from
\* the updated attributes, the metadata file only after the index file of
\* the same add, and at every instant the index file holds at least as many
\* rows as the metadata file holds entries.
C11_IndexFileBeforeMetaFile ==
    [][/\ disk_index' # disk_index =>
            /\ last.op = "add:memory"
            /\ disk_index' = IndexFile(index)
            /\ disk_meta' = disk_meta
       /\ disk_meta' # disk_meta =>
            /\ last.op = "add:index_file"
            /\ disk_index = IndexFile(index)
            /\ disk_meta' = MetaFile(documents, metadatas, ids)
       /\ Len(disk_index'.rows) >= Len(disk_meta'.documents)]_vars

\* The second add of a collection has written its metadata file.
C11_Witness ==
    /\ last.op = "add"
    /\ last.fault = "none"
    /\ disk_index = IndexFile(index)
    /\ disk_meta = MetaFile(documents, metadatas, ids)
    /\ Len(documents) >= 2
    /\ ids[1][1] # ids[Len(ids)][1]

\* C12 as claimed: a restart between the index file write and the metadata
\* file write of an add finds the index file ahead of the metadata file and
\* yields a collection with more index rows than entries, not an empty one.
C12_CrashGapDesynchronizes ==
    [][(last.op = "add:index_file" /\ last'.op = "construct") =>
            /\ Len(disk_index.rows) > Len(disk_meta.documents)
            /\ index' = disk_index.rows
            /\ documents' = disk_meta.documents
            /\ Len(index') > Len(documents')]_vars

\* C12 as amended: the same, for an add on a persist directory in which an
\* earlier add has written the metadata file.
C12_CrashGapAfterEarlierAdd ==
    [][(/\ last.op = "add:index_file"
        /\ last'.op = "construct"
        /\ disk_meta.state = "ok") =>
            /\ Len(disk_index.rows) > Len(disk_meta.documents)
            /\ index' = disk_index.rows
            /\ documents' = disk_meta.documents
            /\ ids' = disk_meta.ids
            /\ Len(index') > Len(documents')]_vars

\* A collection constructed after such a crash: the files of the interrupted
\* add are loaded, the index has more rows than the lists have entries.
C12_Witness ==
    /\ last.op = "construct"
    /\ disk_meta.state = "ok"
    /\ index = disk_index.rows
    /\ documents = disk_meta.documents
    /\ Len(documents) >= 1
    /\ Len(index) > Len(documents)

\* C13: retrieve_context on a collection with count() = 0 returns
\* ("", "none") without raising and without having called the embedding model,
\* the index search or the keyword search.
C13_EmptyCollectionRetrievesNone ==
    (/\ last.op = "retrieve_context"
     /\ last.fault # "count"
     /\ Count(Mem) = 0)
        => /\ last.ret = <<(<<>>), "none">>
           /\ ~last.raised
           /\ last.calls = {}

\* retrieve_context ran on a collection that a restart found empty while the
\* index file holds rows.
C13_Witness ==
    /\ last.op = "retrieve_context"
    /\ last.fault = "none"
    /\ last.ret = <<(<<>>), "none">>
    /\ Count(Mem) = 0
    /\ Len(disk_index.rows) > 0

\* C14: retrieve_context never raises; when count (on a collection that is
\* None), the embedding model or the index search (also for n_results <= 0)
\* raised in its body, it returns ("", "error").
C14_RetrieveNeverRaises ==
    last.op = "retrieve_context" =>
        /\ ~last.raised
        /\ last.fault # "none" => last.ret = <<(<<>>), "error">>

\* The index search failed inside retrieve_context on a collection that
\* holds entries.
C14_Witness ==
    /\ last.op = "retrieve_context"
    /\ last.fault = "search"
    /\ last.ret = <<(<<>>), "error">>
    /\ Count(Mem) > 0

\* The distance of the entry at a list position to a query: that of the
\* entry's own vector.
EntryDistance(mem, e, query) ==
    Dist(EncodeOne(mem.documents[e]), EncodeOne(query))
\* pick names m different entries, closest first, and no entry it leaves out
\* is closer than one it names.
IsClosest(mem, pick, m, query) ==
    /\ \A p, r \in 1..m : p # r => pick[p] # pick[r]
    /\ \A p, r \in 1..m :
          p < r => EntryDistance(mem, pick[p], query)
                       <= EntryDistance(mem, pick[r], query)
    /\ \A p \in 1..m, e \in 1..Count(mem) :
          (\A r \in 1..m : pick[r] # e) =>
              EntryDistance(mem, pick[p], query)
                  <= EntryDistance(mem, e, query)

\* C15: query on a collection that holds entries returns min(n_results,
\* count()) documents, each with the metadata and the distance of its entry,
\* the closest entries, closest first; on an empty collection it returns the
\* empty result and does not raise.
C15_QueryReturnsClosest ==
    \A query \in Queries, n \in 1..MaxResults :
    \A r \in {Query(Mem, <<query>>, n, "none")} :
        IF Count(Mem) = 0 THEN r = EmptyResult
        ELSE /\ ~r.raised
             /\ \E m \in {Min(n, Count(Mem))} :
                \E pick \in [1..m -> 1..Count(Mem)] :
                    /\ IsClosest(Mem, pick, m, query)
                    /\ r.documents = <<[p \in 1..m |-> documents[pick[p]]]>>
                    /\ r.metadatas = <<[p \in 1..m |-> metadatas[pick[p]]]>>
                    /\ r.distances = <<[p \in 1..m |->
                                          EntryDistance(Mem, pick[p], query)]>>

\* C16: when the collection holds entries and the semantic search returns a
\* document, retrieve_context returns method "semantic" and as context the
\* closest entries' documents, at most n_results of them, closest first,
\* joined by a blank line.
C16_SemanticContextIsClosest ==
    \A query \in Queries, n \in 1..MaxResults, fallback_text \in Fallbacks :
    \A sem \in {Query(Mem, <<query>>, Min(n * 2, Count(Mem)), "none")},
       r \in {RetrieveContext("collection", Mem, query, n, fallback_text,
                              "none")} :
        (Count(Mem) > 0 /\ ~sem.raised /\ Len(sem.documents[1]) > 0) =>
            /\ r.ret[2] = "semantic"
            /\ \E m \in 1..Min(n, Count(Mem)) :
               \E pick \in [1..m -> 1..Count(Mem)] :
                    /\ IsClosest(Mem, pick, m, query)
                    /\ r.ret[1] = Join([p \in 1..m |-> documents[pick[p]]],
                                       <<NL, NL>>)

\* A line of the fallback text that is not blank and holds a word of the
\* lower-cased query, case ignored.
MatchesQuery(line, query) ==
    /\ NonBlank(line)
    /\ \E w \in Range(Words(Lower(query))) : Contains(Lower(line), w)

\* C17: when the collection holds entries and the semantic search returns no
\* document, retrieve_context returns method "keyword" and lines of the
\* fallback text that match the query, joined by line feeds, if a fallback
\* text was given and one of its lines matches; otherwise ("", "none").
C17_KeywordFallback ==
    \A query \in Queries, n \in NResults, fallback_text \in Fallbacks :
    \A sem \in {Query(Mem, <<query>>, Min(n * 2, Count(Mem)), "none")} :
        (Count(Mem) > 0 /\ ~sem.raised /\ Len(sem.documents[1]) = 0) =>
            \A r \in {RetrieveContext("collection", Mem, query, n,
                                      fallback_text, "none")} :
                IF /\ fallback_text # NoFallback
                   /\ \E l \in Range(SplitLines(fallback_text)) :
                          MatchesQuery(l, query)
                THEN /\ ~r.raised
                     /\ r.ret[2] = "keyword"
                     /\ r.ret[1] # <<>>
                     /\ \A l \in Range(SplitLines(r.ret[1])) :
                          /\ l \in Range(SplitLines(fallback_text))
                          /\ MatchesQuery(l, query)
                ELSE /\ ~r.raised
                     /\ r.ret = <<(<<>>), "none">>

\* retrieve_context answered from the fallback text.
C17_Witness ==
    /\ last.op = "retrieve_context"
    /\ last.ret[2] = "keyword"
    /\ last.ret[1] # <<>>
    /\ "keyword_search" \in last.calls
    /\ Count(Mem) > 0

\* The number of words of the lower-cased query that are substrings of the
\* lower-cased line.
WordsFound(line, query) ==
    LET ws == Words(Lower(query))
    IN  Cardinality({p \in 1..Len(ws) :
            \E i \in 0..(Len(line) - Len(ws[p])) :
                SubSeq(Lower(line), i + 1, i + Len(ws[p])) = ws[p]})
\* Line i of the text comes before line j in the result: a higher score, or
\* the same score and earlier in the text.
Before(lines, query, i, j) ==
    \/ WordsFound(lines[i], query) > WordsFound(lines[j], query)
    \/ WordsFound(lines[i], query) = WordsFound(lines[j], query) /\ i < j

\* C18: keyword_search returns, joined by line feeds, the first top_k of the
\* non-blank lines with a score above 0, ordered by score descending, lines
\* of equal score in the order of the text; the score of a line is the
\* number of words of the lower-cased query found in the lower-cased line.
\* For the text "a\nb\nc", the query "a b" and top_k = 2 it returns "a\nb".
C18_KeywordSearchRanksLines ==
    last.op = "keyword_search" =>
        LET lines == SplitLines(last.full_text)
            cand == {i \in 1..Len(lines) :
                        /\ \E c \in Range(lines[i]) : c \notin {NL, SP}
                        /\ WordsFound(lines[i], last.query) > 0}
            m == Min(last.top_k, Cardinality(cand))
        IN  /\ \E pick \in [1..m -> cand] :
                  /\ \A p, r \in 1..m :
                        p < r => Before(lines, last.query, pick[p], pick[r])
                  /\ \A p \in 1..m, i \in cand :
                        (\A r \in 1..m : pick[r] # i) =>
                            Before(lines, last.query, pick[p], i)
                  /\ last.ret = Join([p \in 1..m |-> lines[pick[p]]], <<NL>>)
            /\ (/\ last.full_text = <<1, NL, 2, NL, 4>>
                /\ last.query = <<1, SP, 2>>
                /\ last.top_k = 2) => last.ret = <<1, NL, 2>>

\* keyword_search put a later line with two words found in front of an
\* earlier line with one, and dropped a line with none.
C18_Witness ==
    /\ last.op = "keyword_search"
    /\ last.full_text = <<2, NL, 4, NL, UpperA, SP, 2>>
    /\ last.query = <<1, SP, 2>>
    /\ last.top_k = 2
    /\ last.ret = <<UpperA, SP, 2, NL, 2>>

\* C19: get(where) returns the entries whose metadata holds every key of
\* where with the same value, in list order, ids, documents and metadatas of
\* one entry at one position; an empty filter returns every entry, and an
\* entry that lacks a key of the filter is not returned.
C19_GetReturnsSupersetMatches ==
    \A where \in Wheres :
    \A g \in {Get(Mem, where)} :
    \E n \in 0..Count(Mem) :
    \E pos \in [1..n -> 1..Count(Mem)] :
        /\ \A p, r \in 1..n : p < r => pos[p] < pos[r]
        /\ \A i \in 1..Count(Mem) :
              (\E p \in 1..n : pos[p] = i)
                  <=> (\A kv \in where : kv \in metadatas[i])
        /\ g.ids = [p \in 1..n |-> ids[pos[p]]]
        /\ g.documents = [p \in 1..n |-> documents[pos[p]]]
        /\ g.metadatas = [p \in 1..n |-> metadatas[pos[p]]]

\* C20: the metadata of every stored entry holds the key "source".
C20_EveryEntryHasSource ==
    \A i \in 1..Len(metadatas) : \E kv \in metadatas[i] : kv[1] = "source"

\* --------------------------------------------------- claims on the splitter
Max(a, b) == IF a > b THEN a ELSE b
\* The call of SpecSplit returned (it neither raised nor is stuck).
SplitReturned == last.op = "chunk_and_store" /\ ~last.raised /\ ~last.hangs

\* The last n characters of a are the first n characters of b.
Shares(a, b, n) ==
    /\ n <= Min(Len(a), Len(b))
    /\ SubSeq(a, Len(a) - n + 1, Len(a)) = SubSeq(b, 1, n)

\* C21: with the chunk size and overlap the handlers pass (1000 and 200, here
\* 10 and 2) and the default chunking method, a text 2.5 times as long as
\* chunk_size (2500 characters, here 25) is split into at least 2 chunks, each
\* at most chunk_size characters long, consecutive chunks sharing at least 150
\* (here 1) characters.
C21_HandlerScenarioChunks ==
    (/\ SplitReturned
     /\ last.method = "token"
     /\ last.fault = "none"
     /\ last.chunk_size = HandlerChunkSize
     /\ last.chunk_overlap = HandlerChunkOverlap
     /\ Len(last.text) = 25) =>
        /\ Len(last.chunks) >= 2
        /\ \A i \in 1..Len(last.chunks) :
               Len(last.chunks[i]) <= last.chunk_size
        /\ \A i \in 1..(Len(last.chunks) - 1) :
               \E n \in 1..last.chunk_size :
                   Shares(last.chunks[i], last.chunks[i + 1], n)

\* The chunks lie in the text in their order, each starting no later than
\* the position after the last one covered, but for gaps whose characters
\* are all in skip.
RECURSIVE CoversFrom(_, _, _, _, _, _)
CoversFrom(text, chunks, i, from, done, skip) ==
    IF i > Len(chunks)
    THEN \A p \in (done + 1)..Len(text) : text[p] \in skip
    ELSE \E s \in from..(Len(text) + 1) :
             /\ \A p \in (done + 1)..(s - 1) : text[p] \in skip
             /\ StartsAt(text, s, chunks[i])
             /\ CoversFrom(text, chunks, i + 1, s,
                           Max(done, s + Len(chunks[i]) - 1), skip)
Covers(text, chunks) == CoversFrom(text, chunks, 1, 1, 0, {})
CoversButWhitespace(text, chunks) ==
    CoversFrom(text, chunks, 1, 1, 0, Whitespace)

\* C22 as claimed: for every text, the chunks of a call that returns cover
\* the text without gaps and in text order, and the empty text yields no
\* chunks and stores nothing.
C22_ChunksCoverText ==
    SplitReturned =>
        /\ Covers(last.text, last.chunks)
        /\ last.text = <<>> => (last.chunks = <<>> /\ documents = <<>>)

\* C22 as amended: for every text, the chunks of a call that returns lie in
\* the text in their order and cover every position that does not hold
\* whitespace (every position when the token splitter produced them), and the
\* empty text yields no chunks and stores nothing.
C22_ChunksCoverTextButWhitespace ==
    SplitReturned =>
        /\ CoversButWhitespace(last.text, last.chunks)
        /\ last.kind = "token" => Covers(last.text, last.chunks)
        /\ last.text = <<>> => (last.chunks = <<>> /\ documents = <<>>)

\* A text split by the character splitter into several chunks that leave out
\* a space of the text.
C22_Witness ==
    /\ SplitReturned
    /\ last.kind = "character"
    /\ Len(last.chunks) >= 2
    /\ ~Covers(last.text, last.chunks)
    /\ documents = last.chunks

\* C23: when token-based chunking is selected and the token splitter fails,
\* at its construction or while it splits the text, chunk_and_store does not
\* raise and stores the chunks of the character splitter for the same
\* chunk_size and chunk_overlap.
C23_TokenFailureFallsBack ==
    (/\ last.op = "chunk_and_store"
     /\ last.method = "token"
     /\ last.fault \in {"token_init", "token_split"}
     /\ last.chunk_overlap < last.chunk_size) =>
        /\ ~last.raised
        /\ last.chunks = CharSplit(last.text, last.chunk_size,
                                   last.chunk_overlap)
        /\ documents = last.chunks

\* C24: chunk_and_store with chunk_overlap >= chunk_size ends: it raises and
\* stores nothing, or it returns the chunks of a split with a smaller
\* overlap.
C24_OverlapRejectedOrClamped ==
    (last.op = "chunk_and_store" /\ last.chunk_overlap >= last.chunk_size) =>
        \/ last.raised /\ documents = <<>>
        \/ /\ SplitReturned
           /\ \E overlap \in 0..(last.chunk_size - 1) :
                  last.chunks =
                      IF last.kind = "token"
                      THEN SplitOnTokens(Tokenize(last.text), 1,
                                         last.chunk_size, overlap)
                      ELSE CharSplit(last.text, last.chunk_size, overlap)

\* C25: a chunk_and_store call whose existence check raises does not raise
\* for it: it chunks the text and appends the chunks with their source as if
\* the source were absent and returns (chunks, False), so that a source
\* already stored is stored again.
C25_CheckErrorSwallowed ==
    [][(last'.op = "chunk_and_store" /\ last'.check = "raises") =>
           /\ ~last'.raised
           /\ last'.ret = <<Len(SplitText(last'.text)), FALSE>>
           /\ documents' = documents \o SplitText(last'.text)
           /\ metadatas' = metadatas
                  \o ChunkMetadatas(SplitText(last'.text), last'.source)
           /\ Len(ids') = Len(documents')]_vars

\* A source stored by one call and stored again by a call whose existence
\* check raised.
C25_Witness ==
    /\ last.op = "chunk_and_store"
    /\ last.check = "raises"
    /\ last.ret = <<1, FALSE>>
    /\ Len(metadatas) = 2
    /\ \A i \in 1..2 : HasSource(metadatas[i], last.source)
    /\ ids[1][1] # ids[2][1]

\* Entries of two different calls carry the source.
StoredTwice(source) ==
    \E i, j \in 1..Len(metadatas) :
        /\ HasSource(metadatas[i], source)
        /\ HasSource(metadatas[j], source)
        /\ ids[i][1] # ids[j][1]

\* C26: a call that has passed the existence check appends its chunks
\* whatever the collection holds by then (nothing is locked or checked
\* again), so two interleaved calls for one source both append; when the
\* calls run one at a time, no source is ever stored by two calls.
C26_DedupNeedsOneWriter ==
    [][/\ \A w \in Writers :
              (last.writer[w].pc = "checked" /\ last'.writer[w].pc = "idle")
              => /\ documents' =
                        documents \o SplitText(last.writer[w].text)
                 /\ last'.writer[w].ret =
                        <<Len(SplitText(last.writer[w].text)), FALSE>>
       /\ last'.schedule = "event_loop" =>
              \A source \in RealSources : ~StoredTwice(source)']_vars

\* Two calls for one source ran interleaved, both passed the check and both
\* appended their chunks.
C26_Witness ==
    /\ last.op = "add"
    /\ last.schedule = "threads"
    /\ \A w \in Writers : last.writer[w].ret = <<1, FALSE>>
    /\ StoredTwice("a.pdf")

\* C27: on every non-empty collection whose lists and index have one length,
\* for every query and every n_results >= 1, retrieve_context returns the
\* documents of collection.query([query], n_results) joined by two line
\* feeds, and the method "semantic": fetching 2 * n_results and keeping the
\* first n_results changes nothing.
C27_OverFetchUnobservable ==
    \A query \in Queries, n \in 1..MaxResults, fallback_text \in Fallbacks :
    \A q \in {Query(Mem, <<query>>, n, "none")},
       r \in {RetrieveContext("collection", Mem, query, n, fallback_text,
                              "none")} :
        (Count(Mem) > 0 /\ C1_ListsAndIndexSameLength) =>
            /\ ~q.raised
            /\ ~r.raised
            /\ r.ret = <<JoinContext(q.documents[1]), "semantic">>

\* retrieve_context returned one document of a collection of two different
\* documents: it asked query for both and kept the first.
C27_Witness ==
    /\ last.op = "retrieve_context"
    /\ last.ret[2] = "semantic"
    /\ C1_ListsAndIndexSameLength
    /\ Count(Mem) = 2
    /\ documents[1] # documents[2]
    /\ \E i \in 1..2 : last.ret[1] = documents[i]

ReadOps == {"get", "query", "count", "retrieve_context", "keyword_search"}

\* C28: get, query, count, retrieve_context and keyword_search, whatever they
\* return or raise, leave ids, documents, metadatas, the rows of the index
\* and both persisted files as they found them.
C28_ReadsChangeNothing ==
    [][last'.op \in ReadOps =>
           /\ ids' = ids
           /\ documents' = documents
           /\ metadatas' = metadatas
           /\ index' = index
           /\ disk_index' = disk_index
           /\ disk_meta' = disk_meta]_vars

\* A query that raised on a collection whose metadata file lags behind the
\* lists, and left it lagging.
C28_Witness ==
    /\ last.op = "query"
    /\ last.raised
    /\ Len(documents) = 2
    /\ disk_meta.state = "ok"
    /\ Len(disk_meta.documents) = 1

\* C29: the conversation memory never holds more than 10 messages, and
\* whenever no remember_exchange call is running it consists of complete
\* exchanges, the most recent ones: a user message at every odd position,
\* followed by the assistant message of the same exchange, later exchanges
\* after earlier ones.
C29_MemoryHoldsCompleteExchanges ==
    /\ Len(chat_memory) <= ChatMemoryMaxLen
    /\ (\A c \in Callers : last.running[c] = 0) =>
           /\ Len(chat_memory) % 2 = 0
           /\ \A i \in 1..Len(chat_memory) :
                  IF i % 2 = 1
                  THEN /\ chat_memory[i].role = "user"
                       /\ chat_memory[i + 1] =
                              Message("assistant", chat_memory[i].content)
                  ELSE chat_memory[i].role = "assistant"
           /\ \A i, j \in 1..Len(chat_memory) :
                  i < j => chat_memory[i].content <= chat_memory[j].content
           /\ Len(chat_memory) = Min(2 * last.requests, ChatMemoryMaxLen)

\* C30: a /chat request with an empty or whitespace-only message returns the
\* empty-message error, and a request in the video, audio, pdf or image mode
\* whose retrieve_context returns an empty context (method "none" or
\* "error") returns the fixed no-context reply of its mode; in both cases
\* the language model is not called and the conversation memory is left as
\* it was.
C30_NoContextNoModelCall ==
    [][last'.op = "chat" =>
           /\ last'.blank =>
                  /\ last'.reply = EmptyMessageError
                  /\ last'.calls = {}
                  /\ ~last'.raised
                  /\ chat_memory' = chat_memory
           /\ (/\ ~last'.blank
               /\ last'.mode \in ContextModes
               /\ last'.context_empty) =>
                  /\ last'.method \in {"none", "error"}
                  /\ last'.reply = NoContextReply(last'.mode)
                  /\ "llm" \notin last'.calls
                  /\ ~last'.raised
                  /\ chat_memory' = chat_memory]_vars

\* A pdf-mode question on a non-empty collection whose retrieval failed,
\* asked after an exchange that is remembered: the fixed reply, no model
\* call, the memory still that one exchange.
C30_Witness ==
    /\ last.op = "chat"
    /\ last.mode = "pdf"
    /\ last.context_empty
    /\ last.method = "error"
    /\ last.reply = NoContextReply("pdf")
    /\ "llm" \notin last.calls
    /\ Count(Mem) > 0
    /\ Len(chat_memory) = 2

====
